---- MODULE Spec2Model ----
(***************************************************************************)
(* Model of the payroll engine of the employee-scheduling application      *)
(* (src/payroll.py over the record store of src/database.py).              *)
(*                                                                         *)
(* Numbers.  Python floats holding hours are modelled as exact decimals,   *)
(* counted in thousandths of an hour: 8000 is 8.0 h, 7996 is 7.996 h.      *)
(* round(x, 2) is the operator Round2, which rounds to a multiple of 10.   *)
(* A time string "HH:MM" is the sequence of the integers between its       *)
(* colons: "10:00" is <<10, 0>>; None is the empty sequence. A part that   *)
(* int() rejects (letters, nothing at all) is the value NonNumeric.        *)
(* Daily hours are values calculate_shift_hours returns (2 decimals); the  *)
(* thresholds are float(setting) values and may carry a third decimal.     *)
(* Money is counted in thousandths of a dollar (15375 is 15.375, the       *)
(* hourly_rate column is a REAL) and the overtime multiplier in hundredths *)
(* (150 is 1.5).                                                           *)
(***************************************************************************)
EXTENDS Integers, Sequences, FiniteSets, TLC

VARIABLES
    pc,                 \* "input": arguments chosen; "done": the call returned;
                        \* "raised": the call ended with an exception
    daily_hours,        \* calculate_weekly_overtime: the day-ordered hours
    weekly_threshold,   \* weekly overtime threshold (thousandths of an hour)
    daily_threshold,    \* daily overtime threshold (thousandths of an hour)
    results,            \* calculate_weekly_overtime: list of (regular, overtime)
    hours,              \* calculate_daily_overtime: the day's hours
    daily_ret,          \* calculate_daily_overtime: (regular, overtime)
    start_time,         \* calculate_shift_hours: arguments
    end_time,
    lunch_start,
    lunch_end,
    shift_ret,          \* calculate_shift_hours: hours returned
    employees,          \* store: employee id -> row of the employees table
    shifts,             \* store: rows of the shifts table
    settings,           \* store: the settings table, key -> value
    next_id,            \* store: the id AUTOINCREMENT gives the next employee
    employee_id,        \* calculate_employee_payroll: arguments
    start_date,
    end_date,
    payroll_ret,        \* calculate_employee_payroll: EmployeePayroll or error
    overtime_multiplier, \* calculate_employee_payroll: argument (hundredths)
    store_reads,        \* the store calls the last payroll call made, in order
    rpt_pc,             \* calculate_payroll_report: where the call stands
    rpt_settings,       \* its locals overtime_weekly, overtime_daily, overtime_multiplier
    rpt_employees,      \* its local employees: the listing it iterates over
    rpt_i,              \* number of iterations of its for loop done
    payrolls,           \* its local payrolls
    report_ret,         \* the report it returned, or the error it raised
    reference_date,     \* get_week_dates, get_biweekly_dates: argument
    week_ret,           \* get_week_dates: (start, end, dates) returned
    biweekly_ret        \* get_biweekly_dates: (start, end) returned

weeklyVars == <<daily_hours, weekly_threshold, results>>
dailyVars  == <<hours, daily_ret>>
shiftVars  == <<start_time, end_time, lunch_start, lunch_end, shift_ret>>
storeVars  == <<employees, shifts, settings, next_id>>
reportVars == <<rpt_pc, rpt_settings, rpt_employees, rpt_i, payrolls, report_ret>>
payrollVars == <<employee_id, start_date, end_date, payroll_ret,
                 overtime_multiplier, store_reads>>
dateVars == <<reference_date, week_ret, biweekly_ret>>
vars == <<pc, daily_threshold, weeklyVars, dailyVars, shiftVars, storeVars,
          payrollVars, reportVars, dateVars>>

----------------------------------------------------------------------------
(* Bounds of the model *)

\* longest day list given to calculate_weekly_overtime
MaxDays == 5

\* hours a day can carry: values calculate_shift_hours returns (2 decimals)
HoursSet == {0, 6000, 8000, 10000}

\* overtime settings: the defaults 40 / 8, a small weekly threshold that is
\* exhausted within two days, and values with a third decimal
WeeklyThresholds == {0, 10000, 39996, 40000}
DailyThresholds  == {7996, 8000}

\* calculate_daily_overtime is applied to 0, 0.25, ... MaxQuarters / 4 hours
MaxQuarters == 48
QuarterHours == {250 * k : k \in 0..MaxQuarters}

\* time strings: None, and well-formed "HH:MM" values
None == <<>>
ClockHours   == {0, 6, 10, 18, 22}
ClockMinutes == {0, 10, 45}
ClockTimes   == {<<h, m>> : h \in ClockHours, m \in ClockMinutes}
LunchTimes   == {None, <<10, 0>>, <<15, 0>>, <<16, 0>>, <<18, 0>>}

\* a part of a time string that is not the text of an integer
NonNumeric == -1

\* time strings that are not well-formed HH:MM values:
\* "10", "25:00", "10:75", "ab:00" and "10:"
MalformedTimes == { <<10>>, <<25, 0>>, <<10, 75>>, <<NonNumeric, 0>>,
                    <<10, NonNumeric>> }

\* calendar dates are day numbers counted from Monday 2025-01-06 (day 0);
\* the model covers the days 0..MaxDate, and the employee may have a shift
\* on each of the first three and the last two of them
MaxDate   == 8
Dates     == 0..MaxDate
ShiftDays == {0, 1, 2, MaxDate - 1, MaxDate}

\* what a stored shift can look like: (start, end, lunch_start, lunch_end)
ShiftShapes == { <<(<<6, 0>>), (<<18, 0>>), None, None>>,
                 <<(<<10, 0>>), (<<18, 0>>), (<<15, 0>>), (<<16, 0>>)>> }

\* the (weekly, daily) thresholds calculate_employee_payroll is called with
PayrollThresholds == { <<40000, 8000>>, <<10000, 8000>>,
                       <<9996, 8000>>, <<10000, 7996>>, <<10000, 10000>> }

\* the (hourly_rate, overtime_multiplier) pairs of the employee payroll
PayRates == { <<10000, 200>>, <<15375, 150>> }

----------------------------------------------------------------------------
(* Arithmetic helpers *)

Max(a, b) == IF a >= b THEN a ELSE b
Min(a, b) == IF a <= b THEN a ELSE b

\* Nearest integer to n / d (d > 0), ties to the even neighbour. Python
\* rounds the binary value of the float, so a decimal tie (x.xx5) goes to the
\* even neighbour only when the float holds it exactly; the values drawn by
\* the specifications below never produce a tie.
RoundHalfEven(n, d) ==
    LET q == n \div d
        r == n % d
    IN  IF 2 * r < d THEN q
        ELSE IF 2 * r > d THEN q + 1
        ELSE IF q % 2 = 0 THEN q ELSE q + 1

\* round(x, 2) of a value in thousandths of an hour
Round2(x) == 10 * RoundHalfEven(x, 10)

\* Nearest integer to (q + r / d), 0 <= r < d, ties to the even neighbour
RoundQuotient(q, r, d) ==
    IF 2 * r < d THEN q
    ELSE IF 2 * r > d THEN q + 1
    ELSE IF q % 2 = 0 THEN q ELSE q + 1

\* Nearest integer to a * m / d, computed without leaving 32 bits
RoundProduct(a, m, d) ==
    LET n == (a % d) * m
    IN  RoundQuotient((a \div d) * m + n \div d, n % d, d)

SeqOfLen(S, n) == [1..n -> S]
SeqsUpTo(S, n) == UNION {SeqOfLen(S, k) : k \in 0..n}

Reverse(s) == [i \in 1..Len(s) |-> s[Len(s) + 1 - i]]

RECURSIVE SumSeq(_)
SumSeq(s) == IF s = <<>> THEN 0 ELSE s[1] + SumSeq(Tail(s))

Regs(rs) == [i \in 1..Len(rs) |-> rs[i][1]]
Ots(rs)  == [i \in 1..Len(rs) |-> rs[i][2]]

----------------------------------------------------------------------------
(* payroll.py: daily and weekly overtime *)

\* Mutant: the split is taken without the test hours <= daily_threshold.
calculate_daily_overtime_nobranch(h, dt) == <<Min(h, dt), Round2(h - dt)>>

\* Mutant: the overtime part is not rounded.
calculate_daily_overtime_noround(h, dt) ==
    IF h <= dt THEN <<h, 0>> ELSE <<dt, h - dt>>

calculate_daily_overtime(h, dt) ==
    IF h <= dt
    THEN <<h, 0>>
    ELSE <<dt, Round2(h - dt)>>

\* Mutant: the weekly test is >= instead of >.
WeeklyBody_ge(cum, h, wt, dt) ==
    LET d0 == calculate_daily_overtime(h, dt)
    IN  IF cum + d0[1] >= wt
        THEN LET allowed_regular == Max(0, wt - cum)
                 additional_ot   == d0[1] - allowed_regular
             IN  <<allowed_regular, d0[2] + additional_ot>>
        ELSE d0

\* Mutant: the weekly rule is left out.
WeeklyBody_dailyonly(cum, h, wt, dt) == calculate_daily_overtime(h, dt)

\* Mutant: the reclassified hours are not added to the day's overtime.
WeeklyBody_lost(cum, h, wt, dt) ==
    LET d0 == calculate_daily_overtime(h, dt)
    IN  IF cum + d0[1] > wt
        THEN <<Max(0, wt - cum), d0[2]>>
        ELSE d0

\* Mutant: the hours over the weekly threshold are taken from the overtime
\* part and counted as regular.
WeeklyBody_swapped(cum, h, wt, dt) ==
    LET d0 == calculate_daily_overtime(h, dt)
    IN  IF cum + d0[1] > wt
        THEN LET allowed_regular == Max(0, wt - cum)
                 additional_ot   == d0[1] - allowed_regular
             IN  <<d0[1] + d0[2] - allowed_regular, allowed_regular>>
        ELSE d0

\* One iteration of the loop of calculate_weekly_overtime, from the running
\* total cum: the unrounded (daily_regular, daily_ot) of the day.
WeeklyBody(cum, h, wt, dt) ==
    LET d0 == calculate_daily_overtime(h, dt)
    IN  IF cum + d0[1] > wt
        THEN LET allowed_regular == Max(0, wt - cum)
                 additional_ot   == d0[1] - allowed_regular
             IN  <<allowed_regular, d0[2] + additional_ot>>
        ELSE d0

\* Mutant: the running total accumulates the day's hours, not its regular
\* hours.
RECURSIVE WeeklyLoop_totalhours(_, _, _, _, _)
WeeklyLoop_totalhours(rest, cumulative_regular, res, wt, dt) ==
    IF rest = <<>> THEN res
    ELSE LET b == WeeklyBody(cumulative_regular, Head(rest), wt, dt)
         IN  WeeklyLoop_totalhours(Tail(rest), cumulative_regular + Head(rest),
                        Append(res, <<Round2(b[1]), Round2(b[2])>>), wt, dt)

calculate_weekly_overtime_totalhours(dh, wt, dt) ==
    WeeklyLoop_totalhours(dh, 0, <<>>, wt, dt)

\* The loop of calculate_weekly_overtime over the days still to process.
RECURSIVE WeeklyLoop(_, _, _, _, _)
WeeklyLoop(rest, cumulative_regular, res, wt, dt) ==
    IF rest = <<>> THEN res
    ELSE LET b == WeeklyBody(cumulative_regular, Head(rest), wt, dt)
         IN  WeeklyLoop(Tail(rest), cumulative_regular + b[1],
                        Append(res, <<Round2(b[1]), Round2(b[2])>>), wt, dt)

calculate_weekly_overtime(dh, wt, dt) == WeeklyLoop(dh, 0, <<>>, wt, dt)

\* The value of cumulative_regular when the loop reaches day i (1-based).
RECURSIVE CumulativeRegular(_, _, _, _)
CumulativeRegular(dh, i, wt, dt) ==
    IF i <= 1 THEN 0
    ELSE LET c == CumulativeRegular(dh, i - 1, wt, dt)
         IN  c + WeeklyBody(c, dh[i - 1], wt, dt)[1]

----------------------------------------------------------------------------
(* payroll.py: time arithmetic *)

\* "HH:MM" split at ':' ; a string without ':' has minutes 0
parse_time(time_str) ==
    <<time_str[1], IF Len(time_str) > 1 THEN time_str[2] ELSE 0>>

\* int() raises ValueError on a part that is not the text of an integer;
\* parts after the second are not looked at
parse_time_raises(time_str) ==
    \/ time_str[1] = NonNumeric
    \/ Len(time_str) > 1 /\ time_str[2] = NonNumeric

\* Python truth value of an optional time string
Truthy(time_str) == time_str # None

\* round(minutes / 60, 2), in thousandths of an hour
RoundMinutes(m) == 10 * RoundHalfEven(100 * m, 60)

\* Mutant: an end before the start is not moved to the next day.
OvernightEnd_sameday(start_minutes, end_minutes) == end_minutes

OvernightEnd(start_minutes, end_minutes) ==
    IF end_minutes < start_minutes THEN end_minutes + 24 * 60 ELSE end_minutes

\* Mutant: the lunch duration is subtracted whatever its sign.
LunchDeduction_signed(ls, le) ==
    IF Truthy(ls) /\ Truthy(le)
    THEN LET s == parse_time(ls)
             e == parse_time(le)
         IN  (e[1] * 60 + e[2]) - (s[1] * 60 + s[2])
    ELSE 0

\* minutes taken off the shift for lunch
LunchDeduction(ls, le) ==
    IF Truthy(ls) /\ Truthy(le)
    THEN LET s == parse_time(ls)
             e == parse_time(le)
             lunch_duration == (e[1] * 60 + e[2]) - (s[1] * 60 + s[2])
         IN  IF lunch_duration > 0 THEN lunch_duration ELSE 0
    ELSE 0

\* Mutant: the difference is not clamped at 0.
calculate_shift_hours_noclamp(st, et, ls, le) ==
    LET s == parse_time(st)
        e == parse_time(et)
        start_minutes == s[1] * 60 + s[2]
        end_minutes   == OvernightEnd(start_minutes, e[1] * 60 + e[2])
    IN  RoundMinutes((end_minutes - start_minutes) - LunchDeduction(ls, le))

calculate_shift_hours(st, et, ls, le) ==
    LET s == parse_time(st)
        e == parse_time(et)
        start_minutes == s[1] * 60 + s[2]
        end_minutes   == OvernightEnd(start_minutes, e[1] * 60 + e[2])
        diff_minutes  == (end_minutes - start_minutes) - LunchDeduction(ls, le)
    IN  RoundMinutes(Max(0, diff_minutes))

\* the call ends with the ValueError of a parse_time: of start and end
\* always, of the lunch bounds when both are given
calculate_shift_hours_raises(st, et, ls, le) ==
    \/ parse_time_raises(st)
    \/ parse_time_raises(et)
    \/ Truthy(ls) /\ Truthy(le) /\ (parse_time_raises(ls) \/ parse_time_raises(le))

----------------------------------------------------------------------------
(* payroll.py: the week and the bi-weekly pay period of a date.  A date    *)
(* object is its proleptic Gregorian ordinal (date.toordinal(): 0001-01-01  *)
(* is day 1), a timedelta a number of days, and an ISO string "YYYY-MM-DD"  *)
(* the sequence of its three numbers.                                       *)

IsLeap(y) == (y % 4 = 0) /\ ((y % 100 # 0) \/ (y % 400 = 0))
DaysInMonth(y, m) ==
    IF m = 2 THEN (IF IsLeap(y) THEN 29 ELSE 28)
    ELSE IF m \in {4, 6, 9, 11} THEN 30 ELSE 31
DaysBeforeYear(y) ==
    LET p == y - 1 IN p * 365 + (p \div 4) - (p \div 100) + (p \div 400)
DaysBeforeMonth(y, m) ==
    <<0, 31, 59, 90, 120, 151, 181, 212, 243, 273, 304, 334>>[m]
        + (IF m > 2 /\ IsLeap(y) THEN 1 ELSE 0)

\* date(year, month, day)
date(y, m, d) == DaysBeforeYear(y) + DaysBeforeMonth(y, m) + d

\* date.weekday(): 0 for Monday ... 6 for Sunday
weekday(n) == (n + 6) % 7

\* the years the dates of the model fall in
Years == 2023..2027

\* date.isoformat()
isoformat(n) ==
    LET y == CHOOSE yy \in Years :
                 DaysBeforeYear(yy) < n /\ n <= DaysBeforeYear(yy + 1)
        r == n - DaysBeforeYear(y)
        m == CHOOSE mm \in 1..12 :
                 /\ DaysBeforeMonth(y, mm) < r
                 /\ r <= DaysBeforeMonth(y, mm) + DaysInMonth(y, mm)
    IN  <<y, m, r - DaysBeforeMonth(y, m)>>

\* date.fromisoformat(s)
fromisoformat(s) == date(s[1], s[2], s[3])

\* Mutant: the week starts on Sunday.
get_week_dates_sunday(ref) ==
    LET start == ref - ((weekday(ref) + 1) % 7)
        dates == [i \in 1..7 |-> isoformat(start + i - 1)]
    IN  <<dates[1], dates[7], dates>>

\* get_week_dates(reference_date): (dates[0], dates[6], dates)
get_week_dates(ref) ==
    LET start == ref - weekday(ref)
        dates == [i \in 1..7 |-> isoformat(start + i - 1)]
    IN  <<dates[1], dates[7], dates>>

\* Mutant: the periods are anchored one week earlier.
reference_monday_weekbefore == date(2024, 12, 30)

\* reference_monday = date(2025, 1, 6)
reference_monday == date(2025, 1, 6)

\* weeks_diff = (week_start - reference_monday).days // 7
weeks_diff(week_start) == (week_start - reference_monday) \div 7

\* Mutant: the period starts with the week of the date, whichever it is.
get_biweekly_dates_weekly(ref) ==
    LET week_start == ref - weekday(ref)
    IN  <<isoformat(week_start), isoformat(week_start + 13)>>

\* get_biweekly_dates(reference_date): (start.isoformat(), end.isoformat())
get_biweekly_dates(ref) ==
    LET week_start == ref - weekday(ref)
        start == IF weeks_diff(week_start) % 2 = 0
                 THEN week_start
                 ELSE week_start - 7
        end == start + 13
    IN  <<isoformat(start), isoformat(end)>>

----------------------------------------------------------------------------
(* database.py: the reads of the record store *)

\* Mutant: an id that does not resolve gets an empty employee row.
get_employee_default(emps, id) ==
    IF id \in DOMAIN emps THEN emps[id]
    ELSE [name |-> "", hourly_rate |-> 0, is_active |-> FALSE]

\* SELECT * FROM employees WHERE id = ? : the row, or None
get_employee(emps, id) == IF id \in DOMAIN emps THEN emps[id] ELSE None

\* Mutant: the end of the range is excluded.
get_shifts_for_employee_exclusive(shs, id, first, last) ==
    {sh \in shs : sh.employee_id = id /\ first <= sh.shift_date /\ sh.shift_date < last}

\* SELECT * FROM shifts WHERE employee_id = ? AND shift_date BETWEEN ? AND ?
\* (ORDER BY shift_date: with one row per date the order does not matter
\* to the caller, which files the rows by date)
get_shifts_for_employee(shs, id, first, last) ==
    {sh \in shs : sh.employee_id = id /\ first <= sh.shift_date /\ sh.shift_date <= last}

\* ORDER BY name: the place of a name in the collation
NameRank(name) == CASE name = "Ann" -> 1 [] name = "Bob" -> 2 [] OTHER -> 3

\* the rows of the given ids, ordered by name
RECURSIVE OrderByName(_, _)
OrderByName(emps, ids) ==
    IF ids = {} THEN <<>>
    ELSE LET first == CHOOSE i \in ids : \A j \in ids :
                          \/ NameRank(emps[i].name) < NameRank(emps[j].name)
                          \/ NameRank(emps[i].name) = NameRank(emps[j].name) /\ i <= j
         IN  <<[id |-> first, name |-> emps[first].name,
                hourly_rate |-> emps[first].hourly_rate,
                is_active |-> emps[first].is_active]>>
             \o OrderByName(emps, ids \ {first})

\* Mutant: the listing does not look at is_active.
get_employees_inactive_too(emps, active_only) == OrderByName(emps, DOMAIN emps)

\* SELECT * FROM employees [WHERE is_active = 1] ORDER BY name
get_employees(emps, active_only) ==
    OrderByName(emps, {id \in DOMAIN emps : active_only => emps[id].is_active})

\* Mutant: the settings are those loaded when the store was created.
get_all_settings_cached(st) ==
    [overtime_weekly_threshold |-> 40000,
     overtime_daily_threshold  |-> 8000,
     overtime_multiplier       |-> 150]

\* SELECT key, value FROM settings, as a dictionary
get_all_settings(st) == st

----------------------------------------------------------------------------
(* database.py: the writes of the record store *)

\* UPDATE employees SET <updates> WHERE id = ?; updates maps the columns
\* given to their new values
update_employee(emps, id, updates) ==
    IF DOMAIN updates = {} \/ id \notin DOMAIN emps THEN emps
    ELSE [emps EXCEPT ![id] =
             [c \in DOMAIN emps[id] |->
                 IF c \in DOMAIN updates THEN updates[c] ELSE emps[id][c]]]

\* soft delete: update_employee(employee_id, is_active=False)
delete_employee(emps, id) == update_employee(emps, id, [is_active |-> FALSE])

\* Mutant: only the employee row is deleted.
hard_delete_employee_shifts_kept(shs, id) == shs

\* DELETE FROM shifts WHERE employee_id = ? ; DELETE FROM employees WHERE id = ?
hard_delete_employee_shifts(shs, id) == {sh \in shs : sh.employee_id # id}
hard_delete_employee_rows(emps, id) ==
    [i \in DOMAIN emps \ {id} |-> emps[i]]

\* INSERT OR REPLACE INTO settings (key, value)
set_setting(st, key, value) == [k \in DOMAIN st \cup {key} |-> IF k = key THEN value ELSE st[k]]

\* INSERT INTO employees (name, hourly_rate): the row takes the id
\* AUTOINCREMENT hands out and is_active 1
add_employee(emps, id, name, hourly_rate) ==
    [i \in DOMAIN emps \cup {id} |->
        IF i = id
        THEN [name |-> name, hourly_rate |-> hourly_rate, is_active |-> TRUE]
        ELSE emps[i]]

\* a row of the shifts table (without its own id)
shift_row(id, d, st, et, ls, le, template_id) ==
    [employee_id |-> id, shift_date |-> d, start_time |-> st, end_time |-> et,
     lunch_start |-> ls, lunch_end |-> le, template_id |-> template_id]

\* Mutant: a plain INSERT; the row of the same employee and date stays.
add_shift_insert(shs, id, d, st, et, ls, le, template_id) ==
    shs \cup {shift_row(id, d, st, et, ls, le, template_id)}

\* INSERT INTO shifts ... ON CONFLICT(employee_id, shift_date) DO UPDATE SET
\* start_time, end_time, lunch_start, lunch_end, template_id
add_shift(shs, id, d, st, et, ls, le, template_id) ==
    {sh \in shs : ~(sh.employee_id = id /\ sh.shift_date = d)}
        \cup {shift_row(id, d, st, et, ls, le, template_id)}

\* DELETE FROM shifts WHERE employee_id = ? AND shift_date = ?
delete_shift(shs, id, d) ==
    {sh \in shs : ~(sh.employee_id = id /\ sh.shift_date = d)}

\* DELETE FROM shifts WHERE shift_date BETWEEN ? AND ?
clear_shifts_for_week(shs, first, last) ==
    {sh \in shs : ~(first <= sh.shift_date /\ sh.shift_date <= last)}

----------------------------------------------------------------------------
(* payroll.py: calculate_employee_payroll *)

\* Mutant: a range given backwards is walked from its end to its start.
all_dates_either(first, last) ==
    [i \in 1..(Max(first, last) - Min(first, last) + 1) |-> Min(first, last) + i - 1]

\* all_dates: every calendar date from start to end inclusive
all_dates(first, last) == [i \in 1..Max(0, last - first + 1) |-> first + i - 1]

\* daily_hours_map.get(d, 0.0) for each d of all_dates
daily_hours_list(rows, dates) ==
    [i \in 1..Len(dates) |->
        IF \E sh \in rows : sh.shift_date = dates[i]
        THEN LET sh == CHOOSE r \in rows : r.shift_date = dates[i]
             IN  calculate_shift_hours(sh.start_time, sh.end_time,
                                       sh.lunch_start, sh.lunch_end)
        ELSE 0]

\* Mutant: the weekly allocation is run on each 7-day block of the range.
RECURSIVE overtime_results_byweek(_, _, _)
overtime_results_byweek(dh, wt, dt) ==
    IF Len(dh) <= 7 THEN calculate_weekly_overtime(dh, wt, dt)
    ELSE calculate_weekly_overtime(SubSeq(dh, 1, 7), wt, dt)
         \o overtime_results_byweek(SubSeq(dh, 8, Len(dh)), wt, dt)

\* the allocation of the whole range, in one call
overtime_results(dh, wt, dt) == calculate_weekly_overtime(dh, wt, dt)

\* round(total_regular * hourly_rate, 2): hours in thousandths (a multiple
\* of 10, every day's hours being rounded), rate and pay in thousandths
regular_pay_of(total_regular, hourly_rate) ==
    10 * RoundHalfEven((total_regular \div 10) * hourly_rate, 1000)

\* Mutant: overtime hours are paid at the plain rate.
overtime_pay_of_plain(total_ot, hourly_rate, om) ==
    10 * RoundHalfEven((total_ot \div 10) * hourly_rate, 1000)

\* round(total_ot * hourly_rate * overtime_multiplier, 2)
overtime_pay_of(total_ot, hourly_rate, om) ==
    10 * RoundProduct((total_ot \div 10) * hourly_rate, om, 100000)

\* "Employee {id} not found", and the message of int() in parse_time
EmployeeNotFound == "ValueError: Employee not found"
InvalidLiteral   == "ValueError: invalid literal for int()"

\* one of the rows makes calculate_shift_hours raise
shift_hours_raise(rows) ==
    \E sh \in rows : calculate_shift_hours_raises(sh.start_time, sh.end_time,
                                                 sh.lunch_start, sh.lunch_end)

\* the store calls of one calculate_employee_payroll, in order
calculate_employee_payroll_reads(emps, id) ==
    IF get_employee(emps, id) = None
    THEN <<"get_employee">>
    ELSE <<"get_employee", "get_shifts_for_employee">>

calculate_employee_payroll(emps, shs, id, first, last, wt, dt, om) ==
    LET employee == get_employee(emps, id)
        rows     == get_shifts_for_employee(shs, id, first, last)
    IN  IF employee = None
        THEN [error |-> EmployeeNotFound]
        ELSE IF shift_hours_raise(rows)
        THEN [error |-> InvalidLiteral]
        ELSE
        LET dates == all_dates(first, last)
            dh    == daily_hours_list(rows, dates)
            ot    == overtime_results(dh, wt, dt)
            daily_breakdown ==
                [i \in 1..Len(dates) |->
                    [date           |-> dates[i],
                     regular_hours  |-> ot[i][1],
                     overtime_hours |-> ot[i][2],
                     total_hours    |-> Round2(ot[i][1] + ot[i][2])]]
            total_regular == SumSeq(Regs(ot))
            total_ot      == SumSeq(Ots(ot))
            hourly_rate   == employee.hourly_rate
            regular_pay   == regular_pay_of(total_regular, hourly_rate)
            overtime_pay  == overtime_pay_of(total_ot, hourly_rate, om)
        IN  [error                |-> "none",
             employee_id          |-> id,
             employee_name        |-> employee.name,
             hourly_rate          |-> hourly_rate,
             daily_breakdown      |-> daily_breakdown,
             total_regular_hours  |-> Round2(total_regular),
             total_overtime_hours |-> Round2(total_ot),
             total_hours          |-> Round2(total_regular + total_ot),
             regular_pay          |-> regular_pay,
             overtime_pay         |-> overtime_pay,
             total_pay            |-> Round2(regular_pay + overtime_pay)]

----------------------------------------------------------------------------
(* payroll.py: calculate_payroll_report *)

\* sum(p.<field> for p in payrolls)
SumField(ps, field) == SumSeq([i \in 1..Len(ps) |-> ps[i][field]])

\* Mutant: the pay total leaves the overtime pay out.
summary_of_regular_only(ps) ==
    [total_employees      |-> Len(ps),
     total_regular_hours  |-> Round2(SumField(ps, "total_regular_hours")),
     total_overtime_hours |-> Round2(SumField(ps, "total_overtime_hours")),
     total_hours          |-> Round2(SumField(ps, "total_hours")),
     total_regular_pay    |-> Round2(SumField(ps, "regular_pay")),
     total_overtime_pay   |-> Round2(SumField(ps, "overtime_pay")),
     total_pay            |-> Round2(SumField(ps, "regular_pay"))]

\* the 'summary' block
summary_of(ps) ==
    [total_employees      |-> Len(ps),
     total_regular_hours  |-> Round2(SumField(ps, "total_regular_hours")),
     total_overtime_hours |-> Round2(SumField(ps, "total_overtime_hours")),
     total_hours          |-> Round2(SumField(ps, "total_hours")),
     total_regular_pay    |-> Round2(SumField(ps, "regular_pay")),
     total_overtime_pay   |-> Round2(SumField(ps, "overtime_pay")),
     total_pay            |-> Round2(SumField(ps, "total_pay"))]

\* Mutant: employees without hours are left out of the report.
listed_payrolls_with_hours(ps) == SelectSeq(ps, LAMBDA p : p.total_hours > 0)

\* the 'employees' entry: every payroll of the loop
listed_payrolls(ps) == ps

\* the dictionary calculate_payroll_report returns
report_of(first, last, ps, st) ==
    [error      |-> "none",
     start_date |-> first,
     end_date   |-> last,
     employees  |-> listed_payrolls(ps),
     summary    |-> summary_of(listed_payrolls(ps)),
     settings   |-> st]

\* Mutant: a payroll that raises is skipped and the loop goes on.
loop_iteration_tolerant(ps, p) ==
    [error    |-> "none",
     payrolls |-> IF p.error = "none" THEN Append(ps, p) ELSE ps]

\* one iteration of the for loop: the payroll is appended, or the exception
\* of calculate_employee_payroll leaves calculate_payroll_report
loop_iteration(ps, p) ==
    IF p.error = "none"
    THEN [error |-> "none", payrolls |-> Append(ps, p)]
    ELSE [error |-> p.error, payrolls |-> ps]

----------------------------------------------------------------------------
(* Specification of the overtime allocator: Init draws the arguments, the   *)
(* action applies calculate_weekly_overtime to them.                        *)

NoRet == <<>>

IdleDaily == hours = 0 /\ daily_ret = NoRet
IdleDates == reference_date = 0 /\ week_ret = NoRet /\ biweekly_ret = NoRet
IdleShift ==
    /\ start_time = None /\ end_time = None
    /\ lunch_start = None /\ lunch_end = None
    /\ shift_ret = 0

\* the rows init_database puts into the settings table
DefaultSettings ==
    [overtime_weekly_threshold |-> 40000,
     overtime_daily_threshold  |-> 8000,
     overtime_multiplier       |-> 150]

IdleStore ==
    /\ employees = <<>> /\ shifts = {} /\ settings = DefaultSettings
    /\ next_id = 1
IdleReport ==
    /\ rpt_pc = "idle" /\ rpt_settings = NoRet /\ rpt_employees = <<>>
    /\ rpt_i = 0 /\ payrolls = <<>> /\ report_ret = NoRet
IdlePayroll ==
    /\ employee_id = 0 /\ start_date = 0 /\ end_date = 0
    /\ payroll_ret = NoRet
    /\ overtime_multiplier = 0 /\ store_reads = <<>>

InitWeekly ==
    /\ pc = "input"
    /\ IdleDates
    /\ daily_hours \in SeqsUpTo(HoursSet, MaxDays)
    /\ weekly_threshold \in WeeklyThresholds
    /\ daily_threshold \in DailyThresholds
    /\ results = NoRet
    /\ IdleDaily
    /\ IdleShift
    /\ IdleStore
    /\ IdlePayroll
    /\ IdleReport

CallWeeklyOvertime ==
    /\ pc = "input"
    /\ results' = calculate_weekly_overtime(daily_hours, weekly_threshold, daily_threshold)
    /\ pc' = "done"
    /\ UNCHANGED <<daily_hours, weekly_threshold, daily_threshold, dailyVars, shiftVars,
                   storeVars, payrollVars, reportVars, dateVars>>

NextWeekly == CallWeeklyOvertime

SpecWeekly == InitWeekly /\ [][NextWeekly]_vars

----------------------------------------------------------------------------
(* Specification of the daily split: calculate_daily_overtime on one day.   *)

IdleWeekly == daily_hours = <<>> /\ weekly_threshold = 0 /\ results = NoRet

InitDaily ==
    /\ pc = "input"
    /\ IdleDates
    /\ hours \in QuarterHours
    /\ daily_threshold \in DailyThresholds
    /\ daily_ret = NoRet
    /\ IdleWeekly
    /\ IdleShift
    /\ IdleStore
    /\ IdlePayroll
    /\ IdleReport

CallDailyOvertime ==
    /\ pc = "input"
    /\ daily_ret' = calculate_daily_overtime(hours, daily_threshold)
    /\ pc' = "done"
    /\ UNCHANGED <<hours, daily_threshold, weeklyVars, shiftVars, storeVars, payrollVars,
                   reportVars, dateVars>>

NextDaily == CallDailyOvertime

SpecDaily == InitDaily /\ [][NextDaily]_vars

----------------------------------------------------------------------------
(* Specification of the shift-hours arithmetic: calculate_shift_hours on    *)
(* one shift.                                                               *)

InitShift ==
    /\ pc = "input"
    /\ IdleDates
    /\ start_time \in ClockTimes \cup MalformedTimes
    /\ end_time \in ClockTimes \cup MalformedTimes
    /\ lunch_start \in LunchTimes
    /\ lunch_end \in LunchTimes
    /\ shift_ret = 0
    /\ daily_threshold = 0
    /\ IdleWeekly
    /\ IdleDaily
    /\ IdleStore
    /\ IdlePayroll
    /\ IdleReport

CallShiftHours ==
    /\ pc = "input"
    /\ IF calculate_shift_hours_raises(start_time, end_time, lunch_start, lunch_end)
       THEN pc' = "raised" /\ shift_ret' = shift_ret
       ELSE /\ pc' = "done"
            /\ shift_ret' = calculate_shift_hours(start_time, end_time,
                                                  lunch_start, lunch_end)
    /\ UNCHANGED <<start_time, end_time, lunch_start, lunch_end,
                   daily_threshold, weeklyVars, dailyVars, storeVars, payrollVars,
                   reportVars, dateVars>>

NextShift == CallShiftHours

SpecShift == InitShift /\ [][NextShift]_vars

----------------------------------------------------------------------------
(* Specification of the employee payroll: Init draws a store (one employee  *)
(* and their shifts), the thresholds and the arguments; the action applies  *)
(* calculate_employee_payroll.                                              *)

TheEmployee == 1
UnknownEmployee == 2

\* the shifts tables with at most one row per date
ShiftTables ==
    LET Rows(ds, shape) ==
            {[employee_id |-> TheEmployee, shift_date |-> d,
              start_time |-> shape[d][1], end_time |-> shape[d][2],
              lunch_start |-> shape[d][3], lunch_end |-> shape[d][4]] : d \in ds}
    IN  UNION { {Rows(ds, shape) : shape \in [ds -> ShiftShapes]} :
                ds \in SUBSET ShiftDays }

InitPayroll ==
    /\ pc = "input"
    /\ IdleDates
    /\ \E pr \in PayRates :
           /\ employees = (TheEmployee :> [name |-> "Ann", hourly_rate |-> pr[1],
                                           is_active |-> TRUE])
           /\ overtime_multiplier = pr[2]
    /\ shifts \in ShiftTables
    /\ settings = DefaultSettings
    /\ next_id = TheEmployee + 1
    /\ IdleReport
    /\ \E th \in PayrollThresholds :
           weekly_threshold = th[1] /\ daily_threshold = th[2]
    /\ employee_id \in {TheEmployee, UnknownEmployee}
    /\ start_date \in 0..1
    /\ end_date \in Dates
    /\ payroll_ret = NoRet
    /\ store_reads = <<>>
    /\ daily_hours = <<>> /\ results = NoRet
    /\ IdleDaily
    /\ IdleShift

CallEmployeePayroll ==
    /\ pc = "input"
    /\ payroll_ret' = calculate_employee_payroll(employees, shifts, employee_id,
                          start_date, end_date, weekly_threshold, daily_threshold,
                          overtime_multiplier)
    /\ store_reads' = calculate_employee_payroll_reads(employees, employee_id)
    /\ pc' = IF payroll_ret'.error = "none" THEN "done" ELSE "raised"
    /\ UNCHANGED <<employee_id, start_date, end_date, daily_threshold,
                   overtime_multiplier,
                   weeklyVars, dailyVars, shiftVars, storeVars, reportVars, dateVars>>

NextPayroll == CallEmployeePayroll

SpecPayroll == InitPayroll /\ [][NextPayroll]_vars

----------------------------------------------------------------------------
(* Specification of the payroll report.  Init draws a store with two active *)
(* employees and their shifts and fixes the period.  One session runs       *)
(* calculate_payroll_report, a store call at a time (each store call is a   *)
(* transaction of its own, database.py get_connection); between its store   *)
(* calls other sessions of the application update, deactivate, reactivate   *)
(* and delete employees, change the weekly threshold, and ask for the       *)
(* payroll of one employee.                                                 *)

\* the employees of the store: id 1 is Bob, id 2 is Ann
ReportIds == {1, 2}
ReportEmployees ==
    [id \in ReportIds |->
        IF id = 1 THEN [name |-> "Bob", hourly_rate |-> 15375, is_active |-> TRUE]
                  ELSE [name |-> "Ann", hourly_rate |-> 10000, is_active |-> TRUE]]

\* the period of the report and of the employee payrolls
ReportPeriod == <<0, 1>>

\* what the shifts table can hold for one employee: nothing, a 12-hour shift
\* in the period, the same shift after the period, or a shift in the period
\* whose start time is "ab:00"
ShiftRow(id, d, st) ==
    [employee_id |-> id, shift_date |-> d, start_time |-> st,
     end_time |-> <<18, 0>>, lunch_start |-> None, lunch_end |-> None]
ReportShiftOptions(id) ==
    { {},
      {ShiftRow(id, ReportPeriod[1], <<6, 0>>)},
      {ShiftRow(id, ReportPeriod[2] + 1, <<6, 0>>)},
      {ShiftRow(id, ReportPeriod[1], <<NonNumeric, 0>>)} }

\* the values the settings are set to, and the column updates made
ReportWeeklySettings == {6000, 40000}
SettingValues ==
    [overtime_weekly_threshold |-> ReportWeeklySettings,
     overtime_daily_threshold  |-> {8000, 10000},
     overtime_multiplier       |-> {150, 200}]
EmployeeUpdates == { [is_active |-> FALSE], [is_active |-> TRUE] }

\* sqlite3 raising in a store call (database locked, file unreadable)
StoreError == "sqlite3.Error"

InitReport ==
    /\ pc = "input"
    /\ IdleDates
    /\ employees = ReportEmployees
    /\ \E s1 \in ReportShiftOptions(1), s2 \in ReportShiftOptions(2) :
           shifts = s1 \cup s2
    /\ settings = DefaultSettings
    /\ next_id = 3
    /\ start_date = ReportPeriod[1] /\ end_date = ReportPeriod[2]
    /\ weekly_threshold = 40000 /\ daily_threshold = 8000
    /\ overtime_multiplier = 150
    /\ employee_id = 0 /\ payroll_ret = NoRet /\ store_reads = <<>>
    /\ daily_hours = <<>> /\ results = NoRet
    /\ IdleDaily
    /\ IdleShift
    /\ IdleReport

callVars == <<pc, daily_threshold, weeklyVars, dailyVars, shiftVars, payrollVars>>

\* calculate_payroll_report leaves with the exception e
ReportRaises(e) ==
    /\ rpt_pc' = "raised"
    /\ report_ret' = [error |-> e]

\* the call starts: settings = db.get_all_settings() and the three float()s
ReportReadSettings ==
    /\ rpt_pc \in {"idle", "done", "raised"}
    /\ rpt_employees' = <<>> /\ rpt_i' = 0 /\ payrolls' = <<>>
    /\ \/ /\ rpt_settings' = get_all_settings(settings)
          /\ rpt_pc' = "list"
          /\ report_ret' = NoRet
       \/ /\ ReportRaises(StoreError)
          /\ rpt_settings' = NoRet
    /\ UNCHANGED <<callVars, storeVars, dateVars>>

\* employees = db.get_employees(active_only=True)
ReportListEmployees ==
    /\ rpt_pc = "list"
    /\ \/ /\ rpt_employees' = get_employees(employees, TRUE)
          /\ rpt_pc' = "loop"
          /\ UNCHANGED report_ret
       \/ /\ ReportRaises(StoreError)
          /\ UNCHANGED rpt_employees
    /\ UNCHANGED <<rpt_settings, rpt_i, payrolls, callVars, storeVars, dateVars>>

\* one iteration of "for emp in employees"
ReportEmployeePayroll ==
    /\ rpt_pc = "loop"
    /\ rpt_i < Len(rpt_employees)
    /\ \/ LET emp == rpt_employees[rpt_i + 1]
              p   == calculate_employee_payroll(employees, shifts, emp.id,
                         start_date, end_date,
                         rpt_settings.overtime_weekly_threshold,
                         rpt_settings.overtime_daily_threshold,
                         rpt_settings.overtime_multiplier)
              it  == loop_iteration(payrolls, p)
          IN  /\ payrolls' = it.payrolls
              /\ IF it.error = "none"
                 THEN rpt_i' = rpt_i + 1 /\ UNCHANGED <<rpt_pc, report_ret>>
                 ELSE ReportRaises(it.error) /\ UNCHANGED rpt_i
       \/ /\ ReportRaises(StoreError)
          /\ UNCHANGED <<rpt_i, payrolls>>
    /\ UNCHANGED <<rpt_settings, rpt_employees, callVars, storeVars, dateVars>>

\* the totals and the return statement
ReportReturn ==
    /\ rpt_pc = "loop"
    /\ rpt_i = Len(rpt_employees)
    /\ report_ret' = report_of(start_date, end_date, payrolls, rpt_settings)
    /\ rpt_pc' = "done"
    /\ UNCHANGED <<rpt_settings, rpt_employees, rpt_i, payrolls, callVars, storeVars, dateVars>>

\* another session: db.update_employee(id, ...) with one of the given
\* sets of columns
UpdateEmployeeAmong(us) ==
    /\ \E id \in ReportIds, updates \in us :
           employees' = update_employee(employees, id, updates)
    /\ UNCHANGED <<shifts, settings, next_id, callVars, reportVars, dateVars>>

\* another session: db.update_employee(id, is_active=...)
UpdateEmployee == UpdateEmployeeAmong(EmployeeUpdates)

\* another session: db.delete_employee(id)
DeleteEmployee ==
    /\ \E id \in ReportIds : employees' = delete_employee(employees, id)
    /\ UNCHANGED <<shifts, settings, next_id, callVars, reportVars, dateVars>>

\* another session: db.hard_delete_employee(id)
HardDeleteEmployee ==
    /\ \E id \in ReportIds :
           /\ shifts' = hard_delete_employee_shifts(shifts, id)
           /\ employees' = hard_delete_employee_rows(employees, id)
    /\ UNCHANGED <<settings, next_id, callVars, reportVars, dateVars>>

\* another session: db.set_setting(key, str(value)) for one of the given
\* keys (the settings page saves its values one call after the other)
SetSettingAmong(keys) ==
    /\ \E key \in keys : \E v \in SettingValues[key] :
           settings' = set_setting(settings, key, v)
    /\ UNCHANGED <<employees, shifts, next_id, callVars, reportVars, dateVars>>

\* another session: db.set_setting('overtime_weekly_threshold', ...)
SetSetting == SetSettingAmong({"overtime_weekly_threshold"})

\* another session: calculate_employee_payroll(id, start, end) with the
\* default thresholds
QueryEmployeePayroll ==
    /\ \E id \in ReportIds :
           /\ employee_id' = id
           /\ payroll_ret' = calculate_employee_payroll(employees, shifts, id,
                                 start_date, end_date, weekly_threshold,
                                 daily_threshold, overtime_multiplier)
           /\ store_reads' = calculate_employee_payroll_reads(employees, id)
    /\ pc' = IF payroll_ret'.error = "none" THEN "done" ELSE "raised"
    /\ UNCHANGED <<start_date, end_date, daily_threshold, overtime_multiplier,
                   weeklyVars, dailyVars, shiftVars, storeVars, reportVars, dateVars>>

NextReport ==
    \/ ReportReadSettings
    \/ ReportListEmployees
    \/ ReportEmployeePayroll
    \/ ReportReturn
    \/ UpdateEmployee
    \/ DeleteEmployee
    \/ HardDeleteEmployee
    \/ SetSetting
    \/ QueryEmployeePayroll

SpecReport == InitReport /\ [][NextReport]_vars

----------------------------------------------------------------------------
(* Specification of the payroll report under changing settings: the report  *)
(* of SpecReport, on the same stores, while other sessions save the three   *)
(* overtime settings.                                                       *)

\* another session: db.set_setting of any of the three overtime settings
SetOvertimeSetting == SetSettingAmong(DOMAIN SettingValues)

NextSettings ==
    \/ ReportReadSettings
    \/ ReportListEmployees
    \/ ReportEmployeePayroll
    \/ ReportReturn
    \/ SetOvertimeSetting

SpecSettings == InitReport /\ [][NextSettings]_vars

----------------------------------------------------------------------------
(* Specification of the payroll report under changing employee data: the    *)
(* report of SpecReport, on the same stores, while other sessions save the  *)
(* name and hourly rate of employees and the weekly threshold.              *)

\* the names and rates the employee page saves
DataUpdates == { [name |-> "Cy", hourly_rate |-> 20000],
                 [name |-> "Bob", hourly_rate |-> 12500] }

\* another session: db.update_employee(id, name=new_name, hourly_rate=new_rate)
UpdateEmployeeData == UpdateEmployeeAmong(DataUpdates)

NextWriters ==
    \/ ReportReadSettings
    \/ ReportListEmployees
    \/ ReportEmployeePayroll
    \/ ReportReturn
    \/ UpdateEmployeeData
    \/ SetSetting

SpecWriters == InitReport /\ [][NextWriters]_vars

----------------------------------------------------------------------------
(* Specification of the record store.  Init is the store init_database      *)
(* leaves: no employee, no shift, the default settings.  The sessions of    *)
(* the application add, deactivate, reactivate and delete employees, add,   *)
(* replace, delete and clear shifts, and ask for an employee's payroll over *)
(* the period.                                                              *)

\* the dates shifts are put on (a Monday and the Monday after), and the
\* weeks clear_shifts_for_week is called with
StoreDates == {0, 7}
StoreWeeks == { <<0, 6>>, <<7, 13>> }

\* the (start, end, lunch_start, lunch_end, template_id) of an add_shift;
\* template_id 0 stands for NULL
ShiftArgs == { <<(<<6, 0>>), (<<18, 0>>), None, None, 1>>,
               <<(<<10, 0>>), (<<18, 0>>), (<<15, 0>>), (<<16, 0>>), 0>> }

InitStore ==
    /\ pc = "input"
    /\ IdleDates
    /\ IdleStore
    /\ start_date = 0 /\ end_date = 7
    /\ weekly_threshold = 40000 /\ daily_threshold = 8000
    /\ overtime_multiplier = 150
    /\ employee_id = 0 /\ payroll_ret = NoRet /\ store_reads = <<>>
    /\ daily_hours = <<>> /\ results = NoRet
    /\ IdleDaily
    /\ IdleShift
    /\ IdleReport

\* db.add_employee(name, hourly_rate); the store holds the ids of ReportIds
\* at most
AddEmployee ==
    /\ next_id \in ReportIds
    /\ employees' = add_employee(employees, next_id, ReportEmployees[next_id].name,
                                 ReportEmployees[next_id].hourly_rate)
    /\ next_id' = next_id + 1
    /\ UNCHANGED <<shifts, settings, callVars, reportVars, dateVars>>

\* db.add_shift(...) for the ids of the set ids
AddShiftFor(ids) ==
    /\ \E id \in ids, d \in StoreDates, a \in ShiftArgs :
           shifts' = add_shift(shifts, id, d, a[1], a[2], a[3], a[4], a[5])
    /\ UNCHANGED <<employees, settings, next_id, callVars, reportVars, dateVars>>

\* db.add_shift for an employee of the store (the schedule page offers the
\* listed employees)
AddShift == AddShiftFor(DOMAIN employees)

\* db.add_shift with an id the store does not hold (no foreign key is
\* enforced: the connection never sets PRAGMA foreign_keys)
AddShiftUnknown == AddShiftFor(ReportIds \ DOMAIN employees)

\* db.delete_shift(employee_id, shift_date)
DeleteShift ==
    /\ \E id \in ReportIds, d \in StoreDates :
           shifts' = delete_shift(shifts, id, d)
    /\ UNCHANGED <<employees, settings, next_id, callVars, reportVars, dateVars>>

\* db.clear_shifts_for_week(start, end)
ClearShiftsForWeek ==
    /\ \E w \in StoreWeeks : shifts' = clear_shifts_for_week(shifts, w[1], w[2])
    /\ UNCHANGED <<employees, settings, next_id, callVars, reportVars, dateVars>>

NextStoreKnownIds ==
    \/ AddEmployee
    \/ UpdateEmployee
    \/ DeleteEmployee
    \/ HardDeleteEmployee
    \/ AddShift
    \/ DeleteShift
    \/ ClearShiftsForWeek
    \/ QueryEmployeePayroll

\* the store when add_shift is only called for employees it holds
SpecStoreKnownIds == InitStore /\ [][NextStoreKnownIds]_vars

NextStore ==
    \/ NextStoreKnownIds
    \/ AddShiftUnknown

SpecStore == InitStore /\ [][NextStore]_vars

----------------------------------------------------------------------------
(* Specification of the period functions: Init draws the reference date     *)
(* (date.today() or the date the payroll page derives from it), the actions *)
(* apply get_week_dates and get_biweekly_dates to it.                       *)

\* the reference dates lie at most MaxOffset days from the anchor
MaxOffset == 400
RefDates == (reference_monday - MaxOffset)..(reference_monday + MaxOffset)

InitDates ==
    /\ pc = "input"
    /\ reference_date \in RefDates
    /\ week_ret = NoRet /\ biweekly_ret = NoRet
    /\ daily_threshold = 0
    /\ IdleWeekly
    /\ IdleDaily
    /\ IdleShift
    /\ IdleStore
    /\ IdlePayroll
    /\ IdleReport

CallWeekDates ==
    /\ week_ret = NoRet
    /\ week_ret' = get_week_dates(reference_date)
    /\ pc' = "done"
    /\ UNCHANGED <<reference_date, biweekly_ret, daily_threshold, weeklyVars,
                   dailyVars, shiftVars, storeVars, payrollVars, reportVars>>

CallBiweeklyDates ==
    /\ biweekly_ret = NoRet
    /\ biweekly_ret' = get_biweekly_dates(reference_date)
    /\ pc' = "done"
    /\ UNCHANGED <<reference_date, week_ret, daily_threshold, weeklyVars,
                   dailyVars, shiftVars, storeVars, payrollVars, reportVars>>

NextDates ==
    \/ CallWeekDates
    \/ CallBiweeklyDates

SpecDates == InitDates /\ [][NextDates]_vars

----------------------------------------------------------------------------
(* Claims about calculate_weekly_overtime (SpecWeekly) *)

Returned == pc = "done"
TwoDecimals(x) == x % 10 = 0
Prefix(s, k) == SubSeq(s, 1, k)
TenHourWeek == <<10000, 10000, 10000, 10000, 10000>>
DefaultCall ==
    /\ Returned
    /\ weekly_threshold = 40000
    /\ daily_threshold = 8000

\* The weekly rule has taken regular hours from day i.
Reclassified(i) == results[i][1] < Min(daily_hours[i], daily_threshold)

\* C1 as stated: five days of 10 hours under 40 / 8 leave day 5 with
\* (0 regular, 10 overtime) and totals regular 32, overtime 18, hours 50.
C1_AsStated ==
    (DefaultCall /\ daily_hours = TenHourWeek) =>
        /\ \A i \in 1..4 : results[i] = <<8000, 2000>>
        /\ results[5] = <<0, 10000>>
        /\ SumSeq(Regs(results)) = 32000
        /\ SumSeq(Ots(results)) = 18000
        /\ SumSeq(Regs(results)) + SumSeq(Ots(results)) = 50000

\* C1 amended: five days of 10 hours under 40 / 8 give every day, day 5
\* included, (8 regular, 2 overtime): 32 + 8 does not exceed 40. The totals
\* are regular 40, overtime 10, hours 50.
C1_TenHourWeek ==
    (DefaultCall /\ daily_hours = TenHourWeek) =>
        /\ \A i \in 1..5 : results[i] = <<8000, 2000>>
        /\ SumSeq(Regs(results)) = 40000
        /\ SumSeq(Ots(results)) = 10000
        /\ SumSeq(Regs(results)) + SumSeq(Ots(results)) = 50000

C1_Witness == DefaultCall /\ daily_hours = TenHourWeek /\ Len(results) = 5

\* The bound of C2 on the pairs emitted for the first k days.
RegularBounded ==
    \A k \in 1..Len(results) :
        /\ SumSeq(Regs(Prefix(results, k))) <= weekly_threshold
        /\ results[k][1] <= daily_threshold

\* C2 as stated: for every weekly threshold >= 0 the regular hours emitted
\* up to any day sum to at most the weekly threshold and each day's regular
\* hours are at most the daily threshold.
C2_AsStated == (Returned /\ weekly_threshold >= 0) => RegularBounded

\* C2 amended: the same bounds, for hours and thresholds with at most 2
\* decimals (rounding the emitted pair to 2 decimals can lift a regular part
\* above a threshold that has a third decimal).
C2_RegularBounded ==
    (/\ Returned
     /\ weekly_threshold >= 0
     /\ TwoDecimals(weekly_threshold) /\ TwoDecimals(daily_threshold)
     /\ \A i \in 1..Len(daily_hours) : TwoDecimals(daily_hours[i]))
        => RegularBounded

C2_Witness ==
    /\ Returned
    /\ weekly_threshold = 10000 /\ daily_threshold = 8000
    /\ Len(results) >= 3
    /\ Reclassified(2)
    /\ SumSeq(Regs(results)) = weekly_threshold

\* The weekly rule moves hours only from a day's regular part to the same
\* day's overtime part: what the loop body yields for day i, compared with
\* the daily split of that day.
WeeklyOnlyRaisesOvertime ==
    \A i \in 1..Len(results) :
        LET d0 == calculate_daily_overtime(daily_hours[i], daily_threshold)
            b  == WeeklyBody(CumulativeRegular(daily_hours, i, weekly_threshold,
                                               daily_threshold),
                             daily_hours[i], weekly_threshold, daily_threshold)
        IN  /\ b[1] <= d0[1]
            /\ b[2] >= d0[2]
            /\ b[1] + b[2] = d0[1] + d0[2]
            /\ results[i] = <<Round2(b[1]), Round2(b[2])>>

\* C3 as stated: the overtime emitted for day i is at least
\* max(0, hours_i - daily_threshold).
C3_AsStated ==
    Returned =>
        /\ \A i \in 1..Len(results) :
               results[i][2] >= Max(0, daily_hours[i] - daily_threshold)
        /\ WeeklyOnlyRaisesOvertime

\* C3 amended: the overtime emitted for day i is at least
\* max(0, hours_i - daily_threshold) rounded to 2 decimals, and the weekly
\* rule only moves hours from that day's regular part to its overtime part.
C3_DailyOvertimeKept ==
    Returned =>
        /\ \A i \in 1..Len(results) :
               results[i][2] >= Round2(Max(0, daily_hours[i] - daily_threshold))
        /\ WeeklyOnlyRaisesOvertime

C3_Witness ==
    /\ Returned
    /\ Len(results) >= 2
    /\ daily_hours[2] > daily_threshold
    /\ Reclassified(2)
    /\ results[2][1] > 0

\* C5: when every day's hours are at most the daily threshold and all hours
\* together are at most the weekly threshold, every day is returned as
\* (hours, 0).
C5_UnderThresholds ==
    (/\ Returned
     /\ \A i \in 1..Len(daily_hours) : daily_hours[i] <= daily_threshold
     /\ SumSeq(daily_hours) <= weekly_threshold)
        => results = [i \in 1..Len(daily_hours) |-> <<daily_hours[i], 0>>]

C5_Witness ==
    /\ DefaultCall
    /\ daily_hours = <<6000, 6000, 6000, 6000, 6000>>
    /\ results[5] = <<6000, 0>>

\* C6: the allocation depends on the order of the days: for the days
\* (10, 6) under 10 / 8 the result of the reversed list is not the reverse of
\* the result, and the day that loses regular hours to the weekly rule
\* changes from the 6-hour day to the 10-hour day.
C6_OrderDependent ==
    (/\ Returned
     /\ daily_hours = <<10000, 6000>>
     /\ weekly_threshold = 10000 /\ daily_threshold = 8000)
        => LET rev == calculate_weekly_overtime(Reverse(daily_hours),
                                                weekly_threshold, daily_threshold)
           IN  /\ rev # Reverse(results)
               /\ results[1][1] = 8000 /\ results[2][1] < 6000
               /\ rev[1][1] = 6000 /\ rev[2][1] < 8000

C6_Witness ==
    /\ Returned
    /\ daily_hours = <<10000, 6000>>
    /\ weekly_threshold = 10000 /\ daily_threshold = 8000
    /\ results = <<(<<8000, 2000>>), (<<2000, 4000>>)>>

\* C7: one pair per input day, in input order, and each pair splits its
\* day, regular_i + overtime_i = hours_i, for hours and thresholds with at
\* most 2 decimals.
C7_SplitsEachDay ==
    (/\ Returned
     /\ TwoDecimals(weekly_threshold) /\ TwoDecimals(daily_threshold)
     /\ \A i \in 1..Len(daily_hours) : TwoDecimals(daily_hours[i]))
        => /\ Len(results) = Len(daily_hours)
           /\ \A i \in 1..Len(results) :
                  /\ results[i][1] + results[i][2] = daily_hours[i]
                  /\ results[i][1] <= daily_hours[i]

C7_Witness ==
    /\ Returned
    /\ weekly_threshold = 10000 /\ daily_threshold = 8000
    /\ daily_hours = <<6000, 10000, 0, 10000>>
    /\ results = <<(<<6000, 0>>), (<<4000, 6000>>), (<<0, 0>>), (<<0, 10000>>)>>

----------------------------------------------------------------------------
(* Claims about calculate_daily_overtime (SpecDaily) *)

\* C8 as stated: (hours, 0) when hours <= daily_threshold, and
\* (daily_threshold, hours - daily_threshold) otherwise.
C8_AsStated ==
    Returned =>
        /\ hours <= daily_threshold => daily_ret = <<hours, 0>>
        /\ hours > daily_threshold =>
               daily_ret = <<daily_threshold, hours - daily_threshold>>

\* C8 amended: (hours, 0) when hours <= daily_threshold, and
\* (daily_threshold, hours - daily_threshold rounded to 2 decimals)
\* otherwise; (10, 8) gives (8, 2), (6, 8) gives (6, 0), and hours equal to
\* the threshold are all regular.
C8_DailySplit ==
    Returned =>
        /\ hours <= daily_threshold => daily_ret = <<hours, 0>>
        /\ hours > daily_threshold =>
               /\ daily_ret[1] = daily_threshold
               /\ TwoDecimals(daily_ret[2])
               /\ 2 * (daily_ret[2] - (hours - daily_threshold)) \in -10..10
        /\ (hours = 10000 /\ daily_threshold = 8000) => daily_ret = <<8000, 2000>>
        /\ (hours = 6000 /\ daily_threshold = 8000) => daily_ret = <<6000, 0>>
        /\ hours = daily_threshold => daily_ret = <<hours, 0>>

C8_Witness ==
    /\ Returned
    /\ hours = 10000 /\ daily_threshold = 8000
    /\ daily_ret = <<8000, 2000>>

----------------------------------------------------------------------------
(* Claims about calculate_shift_hours (SpecShift) *)

ValidTime(t) == Len(t) = 2 /\ t[1] \in 0..23 /\ t[2] \in 0..59
Minutes(t) == t[1] * 60 + t[2]

\* minutes from start to end, an earlier end taken as next-day
Elapsed(st, et) == (Minutes(et) - Minutes(st)) % 1440

\* h (thousandths of an hour) is m / 60 hours rounded to 2 decimals
IsHoursOf(h, m) == TwoDecimals(h) /\ 6 * h - 100 * m \in -30..30

ShiftCall(st, et, ls, le) ==
    /\ Returned
    /\ start_time = st /\ end_time = et
    /\ lunch_start = ls /\ lunch_end = le

\* C9: without lunch, for valid start and end the result is
\* ((end - start) mod 1440) / 60 rounded to 2 decimals; 22:00 to 06:00 and
\* 10:00 to 18:00 give 8.0, equal start and end give 0.
C9_ShiftHoursNoLunch ==
    (/\ Returned
     /\ ValidTime(start_time) /\ ValidTime(end_time)
     /\ lunch_start = None /\ lunch_end = None)
        => /\ IsHoursOf(shift_ret, Elapsed(start_time, end_time))
           /\ (start_time = <<22, 0>> /\ end_time = <<6, 0>>) => shift_ret = 8000
           /\ (start_time = <<10, 0>> /\ end_time = <<18, 0>>) => shift_ret = 8000
           /\ start_time = end_time => shift_ret = 0

C9_Witness == ShiftCall(<<22, 0>>, <<6, 0>>, None, None) /\ shift_ret = 8000

\* minutes C10 says are taken off for lunch
ClaimedDeduction ==
    IF /\ lunch_start # None /\ lunch_end # None
       /\ Minutes(lunch_end) > Minutes(lunch_start)
    THEN Minutes(lunch_end) - Minutes(lunch_start)
    ELSE 0

\* C10: lunch is deducted exactly when both bounds are given and lunch_end is
\* later than lunch_start, and then lunch_end - lunch_start minutes are
\* deducted; with a bound missing or lunch_end <= lunch_start nothing is
\* deducted. 10:00-18:00 with lunch 15:00-16:00 gives 7.0.
C10_LunchDeduction ==
    (Returned /\ ValidTime(start_time) /\ ValidTime(end_time))
        => /\ IsHoursOf(shift_ret,
                        Max(0, Elapsed(start_time, end_time) - ClaimedDeduction))
           /\ (/\ start_time = <<10, 0>> /\ end_time = <<18, 0>>
               /\ lunch_start = <<15, 0>> /\ lunch_end = <<16, 0>>)
                  => shift_ret = 7000

C10_Witness ==
    ShiftCall(<<10, 0>>, <<18, 0>>, <<15, 0>>, <<16, 0>>) /\ shift_ret = 7000

----------------------------------------------------------------------------
(* Claims about calculate_employee_payroll (SpecPayroll) *)

PayrollReturned == Returned /\ payroll_ret.error = "none"

\* the hours of each day of the queried range, as the calculator derives them
RangeHours ==
    daily_hours_list(
        get_shifts_for_employee(shifts, employee_id, start_date, end_date),
        all_dates(start_date, end_date))

\* Once the running regular total has reached the weekly threshold, a day
\* gets 0 regular hours and all of its hours as overtime, wherever in the
\* range it lies.
ExhaustedStaysExhausted ==
    \A j \in 1..Len(payroll_ret.daily_breakdown) :
        CumulativeRegular(RangeHours, j, weekly_threshold, daily_threshold)
            >= weekly_threshold
        => /\ payroll_ret.daily_breakdown[j].regular_hours = 0
           /\ payroll_ret.daily_breakdown[j].overtime_hours = RangeHours[j]

LongerThanAWeek == Len(payroll_ret.daily_breakdown) > 7

\* C4 as stated: the weekly threshold is never reset within one call, and
\* the payroll of a range longer than 7 days reports at most
\* weekly_threshold regular hours.
C4_AsStated ==
    PayrollReturned =>
        /\ ExhaustedStaysExhausted
        /\ LongerThanAWeek => payroll_ret.total_regular_hours <= weekly_threshold

\* C4 amended: the weekly threshold is never reset within one call, also past
\* a 7-day boundary; the payroll of a range longer than 7 days reports at
\* most weekly_threshold regular hours when the thresholds have at most 2
\* decimals (each day's regular hours are rounded to 2 decimals before they
\* are summed).
C4_NeverReset ==
    PayrollReturned =>
        /\ ExhaustedStaysExhausted
        /\ (/\ LongerThanAWeek
            /\ TwoDecimals(weekly_threshold) /\ TwoDecimals(daily_threshold))
               => payroll_ret.total_regular_hours <= weekly_threshold

C4_Witness ==
    /\ PayrollReturned
    /\ start_date = 0 /\ end_date = 8
    /\ weekly_threshold = 10000 /\ daily_threshold = 8000
    /\ Len(payroll_ret.daily_breakdown) = 9
    /\ CumulativeRegular(RangeHours, 9, weekly_threshold, daily_threshold) = 10000
    /\ RangeHours[9] = 12000
    /\ payroll_ret.daily_breakdown[9].regular_hours = 0
    /\ payroll_ret.daily_breakdown[9].overtime_hours = 12000
    /\ payroll_ret.total_regular_hours = 10000

----------------------------------------------------------------------------
(* Claims about the clamp and the errors of calculate_shift_hours           *)
(* (SpecShift)                                                              *)

Ended == pc # "input"
Raised == pc = "raised"

\* C11: for valid start, end and lunch times the call returns and the result
\* is never negative; when the lunch interval is longer than the shift the
\* result is 0.
C11_NeverNegative ==
    (/\ Ended
     /\ ValidTime(start_time) /\ ValidTime(end_time)
     /\ lunch_start # None => ValidTime(lunch_start)
     /\ lunch_end # None => ValidTime(lunch_end))
        => /\ Returned
           /\ shift_ret >= 0
           /\ ClaimedDeduction > Elapsed(start_time, end_time) => shift_ret = 0

\* 10:00 to 10:10 with lunch 10:00 to 18:00
C11_Witness ==
    ShiftCall(<<10, 0>>, <<10, 10>>, <<10, 0>>, <<18, 0>>) /\ shift_ret = 0

\* C12 as stated: a start or end that is not a well-formed HH:MM value
\* (hours 0-23, minutes 0-59) makes the call fail; it yields no hours value.
C12_AsStated ==
    (Ended /\ (~ValidTime(start_time) \/ ~ValidTime(end_time))) => Raised

----------------------------------------------------------------------------
(* Claims about the record calculate_employee_payroll returns (SpecPayroll) *)

\* C13: a call with an employee id that does not resolve in the store ends
\* with the "not found" error after the get_employee call alone, no shift
\* having been read, and returns no EmployeePayroll record.
C13_EmployeeNotFound ==
    (Ended /\ employee_id \notin DOMAIN employees)
        => /\ Raised
           /\ payroll_ret = [error |-> EmployeeNotFound]
           /\ store_reads = <<"get_employee">>

C13_Witness ==
    /\ Raised
    /\ employee_id = UnknownEmployee
    /\ shifts # {}
    /\ payroll_ret = [error |-> EmployeeNotFound]
    /\ store_reads = <<"get_employee">>

\* the stored shifts of the employee on day d, and the hours they make
ShiftsOn(d) == {sh \in shifts : sh.employee_id = employee_id /\ sh.shift_date = d}
ShiftHoursOn(d) ==
    IF ShiftsOn(d) = {} THEN 0
    ELSE LET sh == CHOOSE r \in ShiftsOn(d) : TRUE
         IN  calculate_shift_hours(sh.start_time, sh.end_time,
                                   sh.lunch_start, sh.lunch_end)

\* the store without the shifts dated outside [start_date, end_date]
ShiftsInRange ==
    {sh \in shifts : start_date <= sh.shift_date /\ sh.shift_date <= end_date}

\* one DailyHours per day of the range, in chronological order
OnePerDay ==
    /\ Len(payroll_ret.daily_breakdown) = end_date - start_date + 1
    /\ \A i \in 1..Len(payroll_ret.daily_breakdown) :
           payroll_ret.daily_breakdown[i].date = start_date + i - 1

OutsideHasNoEffect ==
    payroll_ret = calculate_employee_payroll(employees, ShiftsInRange, employee_id,
                      start_date, end_date, weekly_threshold, daily_threshold,
                      overtime_multiplier)

\* C14 as stated: for start_date <= end_date the breakdown has one entry per
\* day of the range, in order; each day carries the hours of its shift, or 0
\* without a shift; shifts outside the range have no effect.
C14_AsStated ==
    (PayrollReturned /\ start_date <= end_date)
        => /\ OnePerDay
           /\ \A i \in 1..Len(payroll_ret.daily_breakdown) :
                  payroll_ret.daily_breakdown[i].total_hours
                      = ShiftHoursOn(start_date + i - 1)
           /\ OutsideHasNoEffect

\* C14 amended: one entry per day of the range, in order; shifts outside the
\* range have no effect; a day without a shift carries 0 hours and a day
\* with a shift carries that shift's hours when the thresholds have at most
\* 2 decimals, and hours within 0.01 of them otherwise (the day's regular
\* and overtime parts are rounded to 2 decimals one by one).
C14_DailyBreakdown ==
    (PayrollReturned /\ start_date <= end_date)
        => /\ OnePerDay
           /\ \A i \in 1..Len(payroll_ret.daily_breakdown) :
                  LET got  == payroll_ret.daily_breakdown[i].total_hours
                      want == ShiftHoursOn(start_date + i - 1)
                  IN  /\ want = 0 => got = 0
                      /\ (TwoDecimals(weekly_threshold)
                              /\ TwoDecimals(daily_threshold)) => got = want
                      /\ got - want \in -10..10
           /\ OutsideHasNoEffect

\* a range 1..MaxDate with a shift before it, on its first and on its last
\* day, and days without a shift between them
C14_Witness ==
    /\ PayrollReturned
    /\ start_date = 1 /\ end_date = MaxDate
    /\ weekly_threshold = 40000 /\ daily_threshold = 8000
    /\ ShiftsOn(0) # {} /\ ShiftsOn(2) = {}
    /\ payroll_ret.daily_breakdown[1].total_hours = 12000
    /\ payroll_ret.daily_breakdown[2].total_hours = 0
    /\ payroll_ret.daily_breakdown[MaxDate].total_hours = 7000
    /\ payroll_ret.total_hours = 19000

\* pay (thousandths of a dollar, a whole number of cents) is the product of
\* h hours (thousandths) and the rate (thousandths), to the nearest cent
IsPayOf(pay, h, rate) ==
    /\ TwoDecimals(pay)
    /\ LET a == (h \div 10) * rate
           k == (pay \div 10) - (a \div 1000)
       IN  /\ k \in 0..1
           /\ 2 * (1000 * k - (a % 1000)) \in -1000..1000

\* the same for the product of h hours, the rate and the multiplier m
\* (hundredths)
IsPayOfTimes(pay, h, rate, m) ==
    /\ TwoDecimals(pay)
    /\ LET a == (h \div 10) * rate
           k == (pay \div 10) - (a \div 100000) * m
       IN  /\ k \in 0..(m + 1)
           /\ 2 * (100000 * k - (a % 100000) * m) \in -100000..100000

\* C15: regular_pay is total regular hours x hourly_rate and overtime_pay is
\* total overtime hours x hourly_rate x overtime_multiplier, each to the
\* nearest cent, and total_pay = regular_pay + overtime_pay.
C15_Pay ==
    PayrollReturned =>
        /\ payroll_ret.hourly_rate = employees[employee_id].hourly_rate
        /\ IsPayOf(payroll_ret.regular_pay, payroll_ret.total_regular_hours,
                   payroll_ret.hourly_rate)
        /\ IsPayOfTimes(payroll_ret.overtime_pay, payroll_ret.total_overtime_hours,
                        payroll_ret.hourly_rate, overtime_multiplier)
        /\ payroll_ret.total_pay = payroll_ret.regular_pay + payroll_ret.overtime_pay

\* 10 regular and 13.99 overtime hours at 15.375 and 1.5: 153.75 + 322.64
C15_Witness ==
    /\ PayrollReturned
    /\ payroll_ret.hourly_rate = 15375 /\ overtime_multiplier = 150
    /\ payroll_ret.total_regular_hours = 10000
    /\ payroll_ret.total_overtime_hours = 13990
    /\ payroll_ret.regular_pay = 153750
    /\ payroll_ret.overtime_pay = 322640
    /\ payroll_ret.total_pay = 476390

\* C16 as stated: at rate 15.375 and multiplier 1.5, 10 regular and 2
\* overtime hours are paid 153.75 + 46.13 = 199.88.
C16_AsStated ==
    (/\ PayrollReturned
     /\ payroll_ret.hourly_rate = 15375 /\ overtime_multiplier = 150
     /\ payroll_ret.total_regular_hours = 10000
     /\ payroll_ret.total_overtime_hours = 2000)
        => /\ payroll_ret.regular_pay = 153750
           /\ payroll_ret.overtime_pay = 46130
           /\ payroll_ret.total_pay = 199880

----------------------------------------------------------------------------
(* Claims about calculate_payroll_report (SpecReport) *)

ReportDone   == rpt_pc = "done"
ReportRaised == rpt_pc = "raised"

\* the ids of a listing, and the employee ids of a list of payrolls, in order
ListedIds(rows) == [i \in 1..Len(rows) |-> rows[i].id]
PayrollIds(ps)  == [i \in 1..Len(ps) |-> ps[i].employee_id]
Range(f) == {f[i] : i \in DOMAIN f}

Inactive(id) == id \in DOMAIN employees /\ ~employees[id].is_active

\* the stored shifts of employee id dated in the period, and their hours
PeriodShifts(id) ==
    {sh \in shifts : /\ sh.employee_id = id
                     /\ start_date <= sh.shift_date /\ sh.shift_date <= end_date}
RECURSIVE HoursOfShifts(_)
HoursOfShifts(S) ==
    IF S = {} THEN 0
    ELSE LET sh == CHOOSE r \in S : TRUE
         IN  calculate_shift_hours(sh.start_time, sh.end_time,
                                   sh.lunch_start, sh.lunch_end)
             + HoursOfShifts(S \ {sh})
Parseable(S) ==
    \A sh \in S : /\ ValidTime(sh.start_time) /\ ValidTime(sh.end_time)
                  /\ sh.lunch_start = None /\ sh.lunch_end = None

\* the step on which the report reads the listing of employees
ListingStep == rpt_pc = "list" /\ rpt_pc' = "loop"
\* a step of a session asking for one employee's payroll
QueryStep == <<pc, employee_id, payroll_ret, store_reads>>'
                 # <<pc, employee_id, payroll_ret, store_reads>>
\* a step that deactivates employee id
DeactivationStep(id) ==
    /\ id \in DOMAIN employees /\ employees[id].is_active
    /\ employees' = [employees EXCEPT ![id].is_active = FALSE]

\* C17, the listing: an employee inactive when the report reads its listing
\* is not in the listing, and the report holds payrolls of listed employees
\* only.
ListingIsActiveOnly ==
    ListingStep =>
        Range(ListedIds(rpt_employees'))
            = {id \in DOMAIN employees : employees[id].is_active}

\* C17, the soft delete: deactivation keeps the employee's row and shifts.
DeactivationRetains ==
    \A id \in ReportIds : DeactivationStep(id) => shifts' = shifts

\* C17, the single payroll: for an inactive employee it succeeds and its
\* hours are those of the employee's stored shifts of the period.
InactiveStillComputed ==
    (QueryStep /\ Inactive(employee_id') /\ Parseable(PeriodShifts(employee_id')))
        => /\ pc' = "done"
           /\ payroll_ret'.error = "none"
           /\ payroll_ret'.employee_id = employee_id'
           /\ payroll_ret'.total_hours = HoursOfShifts(PeriodShifts(employee_id'))

\* C17: the report includes only employees that are active when it lists
\* them, so an employee deactivated by delete_employee or
\* update_employee(is_active=False) is absent from every report that starts
\* later; the deactivation keeps the shifts, and calculate_employee_payroll
\* for that id still succeeds and is computed from them.
C17_ActiveOnly ==
    /\ [][ListingIsActiveOnly /\ DeactivationRetains /\ InactiveStillComputed]_vars
    /\ [](ReportDone =>
             PayrollIds(report_ret.employees) = ListedIds(rpt_employees))

\* Bob (id 1) is inactive and his payroll was asked for and has his 12
\* hours; the report that started after the deactivation lists Ann alone.
C17_Witness ==
    /\ ReportDone
    /\ Inactive(1)
    /\ PayrollIds(report_ret.employees) = <<2>>
    /\ Returned /\ employee_id = 1
    /\ payroll_ret.total_hours = 12000

\* every hour field and every pay field of the payroll p is 0
AllZero(p) ==
    /\ p.total_regular_hours = 0 /\ p.total_overtime_hours = 0
    /\ p.total_hours = 0
    /\ p.regular_pay = 0 /\ p.overtime_pay = 0 /\ p.total_pay = 0
    /\ \A i \in 1..Len(p.daily_breakdown) :
           /\ p.daily_breakdown[i].regular_hours = 0
           /\ p.daily_breakdown[i].overtime_hours = 0
           /\ p.daily_breakdown[i].total_hours = 0

\* the step on which the loop has computed the payroll of a listed employee
IterationStep == rpt_pc = "loop" /\ rpt_i' = rpt_i + 1

\* C18, the iteration: a listed employee without a shift in the period gets
\* a payroll of zeros.
ZeroShiftPayroll ==
    (IterationStep /\ PeriodShifts(rpt_employees[rpt_i'].id) = {})
        => /\ Len(payrolls') = rpt_i'
           /\ payrolls'[rpt_i'].employee_id = rpt_employees[rpt_i'].id
           /\ AllZero(payrolls'[rpt_i'])

\* C18: an active employee with no shift in the period still appears in the
\* report: the loop computes a payroll of zeros for them, and the report
\* holds the payroll of every listed employee and counts them all.
C18_ZeroShiftEmployee ==
    /\ [][ZeroShiftPayroll]_vars
    /\ [](ReportDone =>
             /\ report_ret.employees = payrolls
             /\ PayrollIds(payrolls) = ListedIds(rpt_employees)
             /\ report_ret.summary.total_employees = Len(rpt_employees))

\* Ann (id 2) has her only shift after the period: the report lists Ann with
\* zeros, then Bob with his 12 hours, and counts 2 employees
C18_Witness ==
    /\ ReportDone
    /\ 2 \in DOMAIN employees
    /\ PeriodShifts(2) = {}
    /\ \E sh \in shifts : sh.employee_id = 2
    /\ PayrollIds(report_ret.employees) = <<2, 1>>
    /\ AllZero(report_ret.employees[1])
    /\ report_ret.employees[2].total_hours = 12000
    /\ report_ret.summary.total_employees = 2

\* C19: each summary field is the sum of the field over the listed payrolls,
\* total_employees is their number, and so the summary's total_hours is its
\* regular plus its overtime hours and its total_pay its regular plus its
\* overtime pay.
C19_SummarySums ==
    ReportDone =>
        LET ps == report_ret.employees
            sm == report_ret.summary
        IN  /\ sm.total_employees = Len(ps)
            /\ sm.total_regular_hours = SumField(ps, "total_regular_hours")
            /\ sm.total_overtime_hours = SumField(ps, "total_overtime_hours")
            /\ sm.total_hours = SumField(ps, "total_hours")
            /\ sm.total_regular_pay = SumField(ps, "regular_pay")
            /\ sm.total_overtime_pay = SumField(ps, "overtime_pay")
            /\ sm.total_pay = SumField(ps, "total_pay")
            /\ sm.total_hours = sm.total_regular_hours + sm.total_overtime_hours
            /\ sm.total_pay = sm.total_regular_pay + sm.total_overtime_pay

\* Ann (10.0) and Bob (15.375) with 12 hours each under 40 / 8 / 1.5:
\* 16 regular and 8 overtime hours, 203.00 + 152.25 = 355.25
C19_Witness ==
    /\ ReportDone
    /\ PayrollIds(report_ret.employees) = <<2, 1>>
    /\ report_ret.summary.total_employees = 2
    /\ report_ret.summary.total_regular_hours = 16000
    /\ report_ret.summary.total_overtime_hours = 8000
    /\ report_ret.summary.total_hours = 24000
    /\ report_ret.summary.total_regular_pay = 203000
    /\ report_ret.summary.total_overtime_pay = 152250
    /\ report_ret.summary.total_pay = 355250

\* the payroll of the employee the loop is at, on the store as it is
CurrentPayroll ==
    calculate_employee_payroll(employees, shifts, rpt_employees[rpt_i + 1].id,
        start_date, end_date,
        rpt_settings.overtime_weekly_threshold,
        rpt_settings.overtime_daily_threshold,
        rpt_settings.overtime_multiplier)

\* a step of the report while its loop has an employee left
LoopStep == rpt_pc = "loop" /\ rpt_i < Len(rpt_employees) /\ reportVars' # reportVars

\* C20, the failure: when the payroll of the employee at hand fails, the
\* step of the report ends the call with that error (or with the error of
\* the store call itself).
FailureEndsTheCall ==
    (LoopStep /\ CurrentPayroll.error # "none")
        => /\ rpt_pc' = "raised"
           /\ report_ret' \in {[error |-> CurrentPayroll.error], [error |-> StoreError]}

\* C20, no retry: a call that has raised does nothing more; the next step of
\* the session is a new call, which starts from the settings.
NoRetry ==
    (ReportRaised /\ reportVars' # reportVars)
        => /\ rpt_pc' \in {"list", "raised"}
           /\ rpt_i' = 0 /\ payrolls' = <<>> /\ rpt_employees' = <<>>

\* C20: the report is fail-fast: the failure of one employee's payroll (the
\* employee no longer resolves, a shift has an unparseable time, the store
\* raises) ends the whole call with that error, nothing is tried again, and
\* no report, partial or not, is returned.
C20_FailFast ==
    /\ [][FailureEndsTheCall /\ NoRetry]_vars
    /\ [](ReportRaised =>
             /\ DOMAIN report_ret = {"error"}
             /\ report_ret.error \in {EmployeeNotFound, InvalidLiteral, StoreError})
    /\ [](ReportDone => report_ret.error = "none")

\* Bob was hard-deleted after the listing was read and after Ann's payroll
\* was computed: the call raised "not found"
C20_Witness ==
    /\ ReportRaised
    /\ report_ret = [error |-> EmployeeNotFound]
    /\ ListedIds(rpt_employees) = <<2, 1>>
    /\ Len(payrolls) = 1
    /\ 1 \notin DOMAIN employees

----------------------------------------------------------------------------
(* Claims about the settings of a report (SpecSettings) *)

\* the step on which a call of the report starts and reads the settings
SettingsStep == rpt_pc \in {"idle", "done", "raised"} /\ rpt_pc' = "list"

\* the payroll of employee id under the settings st, on the store as it is
PayrollUnder(id, st) ==
    calculate_employee_payroll(employees, shifts, id, start_date, end_date,
        st.overtime_weekly_threshold, st.overtime_daily_threshold,
        st.overtime_multiplier)

\* C21: every call of the report starts by reading the settings the store
\* holds at that moment, whatever set_setting has changed before; the report
\* records these values in its settings block and every listed payroll is
\* the one computed with them.
C21_FreshSettings ==
    /\ [][SettingsStep => rpt_settings' = settings]_vars
    /\ [](ReportDone =>
             /\ report_ret.settings = rpt_settings
             /\ \A i \in 1..Len(report_ret.employees) :
                    report_ret.employees[i]
                        = PayrollUnder(report_ret.employees[i].employee_id,
                                       report_ret.settings))

\* the three settings were changed to 6 / 10 / 2.0 and the report made after
\* that records them: Ann's 12 hours are 6 regular and 6 overtime hours,
\* paid 60.00 + 120.00
C21_Witness ==
    /\ ReportDone
    /\ settings = [overtime_weekly_threshold |-> 6000,
                   overtime_daily_threshold  |-> 10000,
                   overtime_multiplier       |-> 200]
    /\ report_ret.settings = settings
    /\ PayrollIds(report_ret.employees) = <<2, 1>>
    /\ report_ret.employees[1].total_regular_hours = 6000
    /\ report_ret.employees[1].total_overtime_hours = 6000
    /\ report_ret.employees[1].regular_pay = 60000
    /\ report_ret.employees[1].overtime_pay = 120000

----------------------------------------------------------------------------
(* Claims about the shifts of the record store (SpecStore) *)

SameDay(r1, r2) == r1.employee_id = r2.employee_id /\ r1.shift_date = r2.shift_date
\* the hours of the shifts the store holds for employee id on date d
StoredHours(id, d) ==
    HoursOfShifts({sh \in shifts : sh.employee_id = id /\ sh.shift_date = d})
\* a step that ends a call of calculate_employee_payroll with a result
PayrollStep == QueryStep /\ payroll_ret'.error = "none"

\* C22: the store never holds two shifts of one employee on one date; a step
\* that stores a new row leaves it as the only row of its employee and date
\* and touches no other row, so add_shift on an existing (employee, date)
\* replaces the row; and the hours a payroll reports for a day are those of
\* the one row stored for that day (0 when there is none), that is of the
\* latest add_shift.
C22_OneShiftPerDay ==
    /\ [](\A r1, r2 \in shifts : SameDay(r1, r2) => r1 = r2)
    /\ [][\A r \in shifts' \ shifts :
              shifts' = {sh \in shifts : ~SameDay(sh, r)} \cup {r}]_vars
    /\ [][PayrollStep =>
              \A i \in 1..Len(payroll_ret'.daily_breakdown) :
                  payroll_ret'.daily_breakdown[i].total_hours
                      = StoredHours(employee_id', payroll_ret'.daily_breakdown[i].date)]_vars
\* employee 1 has the 7-hour shift with lunch on the first Monday and the
\* 12-hour shift on the second, and the payroll reports 7 and 12 hours
C22_Witness ==
    /\ PayrollReturned /\ employee_id = 1
    /\ {sh \in shifts : sh.employee_id = 1}
           = { shift_row(1, 0, <<10, 0>>, <<18, 0>>, <<15, 0>>, <<16, 0>>, 0),
               shift_row(1, 7, <<6, 0>>, <<18, 0>>, None, None, 1) }
    /\ payroll_ret.daily_breakdown[1].total_hours = 7000
    /\ payroll_ret.daily_breakdown[8].total_hours = 12000
    /\ payroll_ret.total_hours = 19000

----------------------------------------------------------------------------
(* Claims about get_week_dates and get_biweekly_dates (SpecDates) *)

WeekReturned == week_ret # NoRet
BiweeklyReturned == biweekly_ret # NoRet
\* s is a calendar date
IsDate(s) == Len(s) = 3 /\ s[2] \in 1..12 /\ s[3] \in 1..DaysInMonth(s[1], s[2])
\* the calendar date after s
NextDay(s) ==
    IF s[3] < DaysInMonth(s[1], s[2]) THEN <<s[1], s[2], s[3] + 1>>
    ELSE IF s[2] < 12 THEN <<s[1], s[2] + 1, 1>>
    ELSE <<s[1] + 1, 1, 1>>

\* C23: get_week_dates returns as start the Monday on or before the
\* reference date, as end the Sunday six days after start, and as list the 7
\* consecutive calendar dates from start to end in order, of which the
\* reference date is one.
C23_WeekOfDate ==
    WeekReturned =>
        LET start == fromisoformat(week_ret[1])
            end   == fromisoformat(week_ret[2])
            dates == week_ret[3]
        IN  /\ weekday(start) = 0
            /\ start <= reference_date /\ reference_date - start <= 6
            /\ end = start + 6 /\ weekday(end) = 6
            /\ Len(dates) = 7
            /\ dates[1] = week_ret[1] /\ dates[7] = week_ret[2]
            /\ \A i \in 1..7 : IsDate(dates[i])
            /\ \A i \in 1..6 : dates[i + 1] = NextDay(dates[i])
            /\ \E i \in 1..7 : fromisoformat(dates[i]) = reference_date
\* the week of Wednesday 2025-01-01 runs from 2024-12-30 to 2025-01-05
C23_Witness ==
    /\ reference_date = date(2025, 1, 1)
    /\ week_ret = << <<2024, 12, 30>>, <<2025, 1, 5>>,
                     << <<2024, 12, 30>>, <<2024, 12, 31>>, <<2025, 1, 1>>,
                        <<2025, 1, 2>>, <<2025, 1, 3>>, <<2025, 1, 4>>,
                        <<2025, 1, 5>> >> >>

\* C24: get_biweekly_dates returns (2025-01-06, 2025-01-19) for 2025-01-06
\* and for 2025-01-13, and (2025-01-20, 2025-02-02) for 2025-01-20.
C24_AnchorPeriods ==
    BiweeklyReturned =>
        /\ reference_date = date(2025, 1, 6)
               => biweekly_ret = << <<2025, 1, 6>>, <<2025, 1, 19>> >>
        /\ reference_date = date(2025, 1, 13)
               => biweekly_ret = << <<2025, 1, 6>>, <<2025, 1, 19>> >>
        /\ reference_date = date(2025, 1, 20)
               => biweekly_ret = << <<2025, 1, 20>>, <<2025, 2, 2>> >>
\* the call for 2025-01-13, a date of the second week of its period
C24_Witness ==
    /\ reference_date = date(2025, 1, 13)
    /\ biweekly_ret = << <<2025, 1, 6>>, <<2025, 1, 19>> >>

\* the anchor of the pay periods, Monday 2025-01-06
Anchor == date(2025, 1, 6)
\* the numbers of periods the reference date is moved back by
MaxPeriods == 3
BiweeklyStart(d) == fromisoformat(get_biweekly_dates(d)[1])
BiweeklyEnd(d) == fromisoformat(get_biweekly_dates(d)[2])

\* C25: for every reference date d, before or after the anchor,
\* get_biweekly_dates returns a start that is a Monday a multiple of 14 days
\* from the anchor and end = start + 13 with start <= d <= end; every date
\* of the period returns the same bounds, the period of any date outside it
\* does not overlap it, and for d - 14k the bounds are those of d moved
\* back by 14k days.
C25_PeriodTiling ==
    BiweeklyReturned =>
        LET start == fromisoformat(biweekly_ret[1])
            end   == fromisoformat(biweekly_ret[2])
        IN  /\ IsDate(biweekly_ret[1]) /\ IsDate(biweekly_ret[2])
            /\ weekday(start) = 0
            /\ (start - Anchor) % 14 = 0
            /\ end = start + 13
            /\ start <= reference_date /\ reference_date <= end
            /\ \A e \in start..end : get_biweekly_dates(e) = biweekly_ret
            /\ \A e \in RefDates \ (start..end) :
                   BiweeklyEnd(e) < start \/ end < BiweeklyStart(e)
            /\ \A k \in 0..MaxPeriods :
                   get_biweekly_dates(reference_date - 14 * k)
                       = <<isoformat(start - 14 * k), isoformat(end - 14 * k)>>
\* Wednesday 2025-01-01, before the anchor, lies in the second week of the
\* period from 2024-12-23 to 2025-01-05
C25_Witness ==
    /\ reference_date = date(2025, 1, 1)
    /\ reference_date < Anchor
    /\ biweekly_ret = << <<2024, 12, 23>>, <<2025, 1, 5>> >>

----------------------------------------------------------------------------
(* Claims about the reads of calculate_payroll_report (SpecWriters) *)

\* the row of employee id in the listing the report iterates over
ListedRows(id) ==
    {rpt_employees[j] : j \in {k \in 1..Len(rpt_employees) : rpt_employees[k].id = id}}
\* the name and the rate of every payroll of the report are those of the
\* listing
AsListed(ps) ==
    \A i \in 1..Len(ps) :
        \E row \in ListedRows(ps[i].employee_id) :
            /\ ps[i].employee_name = row.name
            /\ ps[i].hourly_rate = row.hourly_rate

\* the locals holding the settings are assigned by the first step of a call
\* only, and the report returns them
SettingsReadOnce ==
    /\ [][rpt_settings' # rpt_settings => rpt_pc \in {"idle", "done", "raised"}]_vars
    /\ [](ReportDone => report_ret.settings = rpt_settings)

\* C26 (as stated): within one report the settings are read once, at its
\* start, and an employee record of the listing is not fetched again: the
\* name and the hourly rate of every payroll of the report are those the
\* listing held, whatever another writer saved after the listing was taken.
C26_AsStated ==
    /\ SettingsReadOnce
    /\ [](ReportDone => AsListed(report_ret.employees))

----------------------------------------------------------------------------
(* Claims about the totals of calculate_weekly_overtime (SpecWeekly) *)

\* the orders the days of dh can come in
Permuted(dh) ==
    {[i \in 1..Len(dh) |-> dh[p[i]]] : p \in Permutations(1..Len(dh))}
\* sum over the days of min(hours_i, daily_threshold)
CappedSum(dh, dt) == SumSeq([i \in 1..Len(dh) |-> Min(dh[i], dt)])
\* the totals of the pairs rs are those of the formula for the days dh
TotalsAsFormula(rs, dh) ==
    /\ SumSeq(Regs(rs)) = Min(weekly_threshold, CappedSum(dh, daily_threshold))
    /\ SumSeq(Ots(rs)) = SumSeq(dh) - SumSeq(Regs(rs))
\* the totals returned, and those of every other order of the days
OrderFreeTotals ==
    /\ TotalsAsFormula(results, daily_hours)
    /\ \A q \in Permuted(daily_hours) :
           TotalsAsFormula(calculate_weekly_overtime(q, weekly_threshold,
                                                     daily_threshold), q)
NonNegativeInput ==
    /\ weekly_threshold >= 0 /\ daily_threshold >= 0
    /\ \A i \in 1..Len(daily_hours) : daily_hours[i] >= 0

\* C27 as stated: for non-negative daily hours and thresholds, total regular
\* = min(weekly_threshold, sum of min(hours_i, daily_threshold)) and total
\* overtime = sum of hours - total regular, in every order of the days.
C27_AsStated == (Returned /\ NonNegativeInput) => OrderFreeTotals

\* C27 amended: the same totals, in every order of the days, for
\* non-negative hours and thresholds with at most 2 decimals (the pairs are
\* rounded to 2 decimals day by day, so a threshold with a third decimal
\* moves the totals off the formula).
C27_OrderFreeTotals ==
    (/\ Returned /\ NonNegativeInput
     /\ TwoDecimals(weekly_threshold) /\ TwoDecimals(daily_threshold)
     /\ \A i \in 1..Len(daily_hours) : TwoDecimals(daily_hours[i]))
        => OrderFreeTotals
\* 10, 6, 10 hours under 10 / 8: regular (8, 2, 0); in reverse order the
\* same; 6, 10, 10 gives (6, 4, 0): the days differ, the totals are 10 and 16
C27_Witness ==
    /\ Returned
    /\ weekly_threshold = 10000 /\ daily_threshold = 8000
    /\ daily_hours = <<10000, 6000, 10000>>
    /\ results = << <<8000, 2000>>, <<2000, 4000>>, <<0, 10000>> >>
    /\ calculate_weekly_overtime(<<6000, 10000, 10000>>, weekly_threshold,
                                 daily_threshold)
           = << <<6000, 0>>, <<4000, 6000>>, <<0, 10000>> >>
    /\ SumSeq(Regs(results)) = 10000 /\ SumSeq(Ots(results)) = 16000

----------------------------------------------------------------------------
(* Claims about the totals of calculate_employee_payroll (SpecPayroll) *)

\* C28: every EmployeePayroll has total_hours = total_regular_hours +
\* total_overtime_hours, and for thresholds with at most 2 decimals
\* total_hours is the sum of calculate_shift_hours over the employee's
\* shifts dated within [start_date, end_date].
C28_HoursConserved ==
    PayrollReturned =>
        /\ payroll_ret.total_hours
               = payroll_ret.total_regular_hours + payroll_ret.total_overtime_hours
        /\ (TwoDecimals(weekly_threshold) /\ TwoDecimals(daily_threshold))
               => payroll_ret.total_hours = HoursOfShifts(PeriodShifts(employee_id))
\* 12 hours on day 1 and 7 hours on the last day under 10 / 8, a shift
\* before the range: 10 regular and 9 overtime hours, 19 in all
C28_Witness ==
    /\ PayrollReturned
    /\ start_date = 1 /\ end_date = MaxDate
    /\ weekly_threshold = 10000 /\ daily_threshold = 8000
    /\ ShiftsOn(0) # {}
    /\ Cardinality(PeriodShifts(employee_id)) = 2
    /\ payroll_ret.total_regular_hours = 10000
    /\ payroll_ret.total_overtime_hours = 9000
    /\ payroll_ret.total_hours = 19000

\* C30: a call for an existing employee with start_date later than end_date
\* raises no error and returns an EmployeePayroll with an empty
\* daily_breakdown and all hour and pay totals 0, whatever shifts the
\* employee has.
C30_EmptyRange ==
    (Ended /\ employee_id \in DOMAIN employees /\ start_date > end_date)
        => /\ PayrollReturned
           /\ payroll_ret.daily_breakdown = <<>>
           /\ payroll_ret.total_regular_hours = 0
           /\ payroll_ret.total_overtime_hours = 0
           /\ payroll_ret.total_hours = 0
           /\ payroll_ret.regular_pay = 0
           /\ payroll_ret.overtime_pay = 0
           /\ payroll_ret.total_pay = 0
\* the range from day 1 to day 0 of an employee with shifts on both days
C30_Witness ==
    /\ PayrollReturned
    /\ start_date = 1 /\ end_date = 0
    /\ ShiftsOn(0) # {} /\ ShiftsOn(1) # {}
    /\ payroll_ret.daily_breakdown = <<>>
    /\ payroll_ret.total_pay = 0

----------------------------------------------------------------------------
(* Claims about the employees of the record store (SpecStoreKnownIds) *)

\* the employees a step removes from the store
Removed == DOMAIN employees \ DOMAIN employees'
\* a step that turns the stored employee id inactive
SoftDeleteStep(id) ==
    /\ id \in DOMAIN employees /\ employees[id].is_active
    /\ id \in DOMAIN employees' /\ ~employees'[id].is_active

\* C29: when add_shift is only called with ids of employees the store holds,
\* every stored shift belongs to a stored employee; a step that removes an
\* employee (hard_delete_employee) removes exactly that employee's shifts
\* with the row, and a step that deactivates an employee (delete_employee)
\* changes that employee's is_active alone: no row and no shift goes.
C29_NoOrphanShifts ==
    /\ [](\A sh \in shifts : sh.employee_id \in DOMAIN employees)
    /\ [][Removed # {} =>
              /\ shifts' = {sh \in shifts : sh.employee_id \notin Removed}
              /\ \A id \in DOMAIN employees' : employees'[id] = employees[id]]_vars
    /\ [][\A id \in ReportIds :
              SoftDeleteStep(id) =>
                  /\ employees' = [employees EXCEPT ![id].is_active = FALSE]
                  /\ shifts' = shifts]_vars
\* employee 1 was deleted for good and left no shift; employee 2 was
\* deactivated and still has both shifts
C29_Witness ==
    /\ next_id = 3
    /\ DOMAIN employees = {2}
    /\ ~employees[2].is_active
    /\ Cardinality(shifts) = 2
    /\ \A sh \in shifts : sh.employee_id = 2

====
